---- MODULE Spec2Model ----
(***************************************************************************)
(* Model of minesweeper.py: the Minesweeper board, the Sentence class and  *)
(* the MinesweeperAI knowledge base.                                       *)
(*                                                                         *)
(* A cell is a pair <<i, j>>.  A Sentence is a record [cells, count].  The *)
(* fields mines_known / safes_known of Sentence are written by             *)
(* Sentence.mark_mine / mark_safe but read only by known_mines /           *)
(* known_safes, which no method of MinesweeperAI calls; they take no part  *)
(* in Sentence.__eq__ and are left out of the record.                      *)
(***************************************************************************)
EXTENDS Integers, Sequences, FiniteSets, TLC

\* ---------------------------------------------------------------- bounds
\* grids explored: every height x width with height * width <= MaxCells
MaxCells == 6
\* boards explored: every placement of at most MaxMines mines
MaxMines == 3
\* length of the call sequences of a game (Spec)
MaxCalls == 3
\* length of the call sequences of arbitrary API use (SpecAPI)
MaxApiCalls == 2
\* length of the call sequences on the default 8 x 8 grid (SpecAPI)
MaxDefaultCalls == 1
\* rows, and columns, of the grids neighbor_cells is called on by itself
MaxSide == 4

\* ------------------------------------------------------ program constants
\* MinesweeperAI.__init__(self, height=8, width=8)
DefaultHeight == 8
DefaultWidth == 8

\* Python's None
None == <<>>

VARIABLES
    height,      \* MinesweeperAI.height (= Minesweeper.height)
    width,       \* MinesweeperAI.width  (= Minesweeper.width)
    board,       \* Minesweeper.board, as the set of cells that hold a mine
    moves_made,  \* MinesweeperAI.moves_made
    mines,       \* MinesweeperAI.mines
    safes,       \* MinesweeperAI.safes
    knowledge,   \* MinesweeperAI.knowledge, a sequence of Sentences
    calls,       \* number of calls made so far
    last,        \* the last call: its name, arguments, return value and, for
                 \* add_knowledge, which of its three returns it took
    subset_in,   \* knowledge as the subset pass of the latest add_knowledge
                 \* found it (<<>> when that call returned before the pass)
    scan_in      \* knowledge as the resolution scan of the latest add_knowledge
                 \* found it, the new sentence last (<<>> when that call
                 \* returned before the scan)

vars == <<height, width, board, moves_made, mines, safes, knowledge, calls,
          last, subset_in, scan_in>>

\* ------------------------------------------------------------- geometry
\* range(n) x range(m)
Grid(h, w) == (0..(h - 1)) \X (0..(w - 1))

neighbor_cells_closed_bounds(current_cell, h, w) ==
    { c \in ((current_cell[1] - 1)..(current_cell[1] + 1))
              \X ((current_cell[2] - 1)..(current_cell[2] + 1)) :
        /\ c # current_cell
        /\ 0 <= c[1] /\ c[1] <= h
        /\ 0 <= c[2] /\ c[2] <= w }

\* neighbor_cells(current_cell, height, width)
neighbor_cells(current_cell, h, w) ==
    { c \in ((current_cell[1] - 1)..(current_cell[1] + 1))
              \X ((current_cell[2] - 1)..(current_cell[2] + 1)) :
        /\ c # current_cell
        /\ 0 <= c[1] /\ c[1] < h
        /\ 0 <= c[2] /\ c[2] < w }

\* Minesweeper.nearby_mines(cell), the board given as its set of mines
nearby_mines(b, cell, h, w) ==
    Cardinality({ c \in ((cell[1] - 1)..(cell[1] + 1))
                          \X ((cell[2] - 1)..(cell[2] + 1)) :
                    /\ c # cell
                    /\ 0 <= c[1] /\ c[1] < h
                    /\ 0 <= c[2] /\ c[2] < w
                    /\ c \in b })

\* Minesweeper.is_mine(cell)
is_mine(b, cell) == cell \in b

\* ------------------------------------------------------------- Sentence
\* Sentence.__init__(cells, count)
Sentence(cells, count) == [cells |-> cells, count |-> count]

\* Sentence.__eq__
SentenceEq(s, other) == s.cells = other.cells /\ s.count = other.count

\* Sentence.mark_mine without "self.count -= 1"
Sentence_mark_mine_keeps_count(s, cell) ==
    IF cell \notin s.cells THEN s
    ELSE [cells |-> s.cells \ {cell}, count |-> s.count]

Sentence_mark_mine_unguarded(s, cell) ==
    [cells |-> s.cells \ {cell}, count |-> s.count - 1]

\* Sentence.mark_mine(cell)
Sentence_mark_mine(s, cell) ==
    IF cell \notin s.cells THEN s
    ELSE [cells |-> s.cells \ {cell}, count |-> s.count - 1]

\* Sentence.mark_safe(cell)
Sentence_mark_safe(s, cell) ==
    IF cell \notin s.cells THEN s
    ELSE [cells |-> s.cells \ {cell}, count |-> s.count]

\* -------------------------------------------------------- MinesweeperAI
\* The AI's fields as one record, so that the methods are operators on it.
AI(mm, mi, sa, kn) ==
    [moves_made |-> mm, mines |-> mi, safes |-> sa, knowledge |-> kn]

\* MinesweeperAI.mark_mine without the loop over self.knowledge
mark_mine_not_propagated(ai, cell) == [ai EXCEPT !.mines = @ \cup {cell}]

\* MinesweeperAI.mark_mine(cell)
mark_mine(ai, cell) ==
    [ai EXCEPT !.mines = @ \cup {cell},
               !.knowledge = [i \in 1..Len(@) |-> Sentence_mark_mine(@[i], cell)]]

\* MinesweeperAI.mark_safe that also takes the cell out of mines
mark_safe_discards_mine(ai, cell) ==
    [ai EXCEPT !.safes = @ \cup {cell},
               !.mines = @ \ {cell},
               !.knowledge = [i \in 1..Len(@) |-> Sentence_mark_safe(@[i], cell)]]

\* MinesweeperAI.mark_safe(cell)
mark_safe(ai, cell) ==
    [ai EXCEPT !.safes = @ \cup {cell},
               !.knowledge = [i \in 1..Len(@) |-> Sentence_mark_safe(@[i], cell)]]

\* "for cell in cells: self.mark_mine(cell)"
RECURSIVE mark_mine_each(_, _)
mark_mine_each(ai, cells) ==
    IF cells = {} THEN ai
    ELSE LET cell == CHOOSE c \in cells : TRUE
         IN  mark_mine_each(mark_mine(ai, cell), cells \ {cell})

\* the loop leaving after its first cell
mark_safe_first_only(ai, cells) ==
    IF cells = {} THEN ai
    ELSE mark_safe(ai, CHOOSE c \in cells : TRUE)

\* "for cell in cells: self.mark_safe(cell)"
RECURSIVE mark_safe_each(_, _)
mark_safe_each(ai, cells) ==
    IF cells = {} THEN ai
    ELSE LET cell == CHOOSE c \in cells : TRUE
         IN  mark_safe_each(mark_safe(ai, cell), cells \ {cell})

\* "self.knowledge.remove(sentence)": list.remove drops the first element that
\* compares equal (Sentence.__eq__).  Every sentence removed is an element of
\* knowledge, so the ValueError of a missing element cannot arise.
RECURSIVE list_remove(_, _)
list_remove(k, s) ==
    IF k = <<>> THEN k
    ELSE IF SentenceEq(Head(k), s) THEN Tail(k)
    ELSE <<Head(k)>> \o list_remove(Tail(k), s)

\* "for sentence in remove_sentence: self.knowledge.remove(sentence)"
RECURSIVE remove_each(_, _)
remove_each(k, remove_sentence) ==
    IF remove_sentence = <<>> THEN k
    ELSE remove_each(list_remove(k, Head(remove_sentence)), Tail(remove_sentence))

\* the two tests of the resolution scan, in the order the code makes them
all_mines(s) == Cardinality(s.cells) = s.count
all_safes(s) == ~all_mines(s) /\ s.count = 0

\* remove_sentence, mark_mines and mark_safes as the scan of knowledge leaves them
scan_remove_sentence(k) == SelectSeq(k, LAMBDA s : all_mines(s) \/ all_safes(s))
scan_mark_mines(k) == UNION { k[i].cells : i \in { n \in 1..Len(k) : all_mines(k[n]) } }
scan_mark_safes(k) == UNION { k[i].cells : i \in { n \in 1..Len(k) : all_safes(k[n]) } }

\* knowledge after the removals of the resolution pass, before the marks
after_remove(k) == remove_each(k, scan_remove_sentence(k))

\* a resolution pass that removes and marks inside the scan: after a removal
\* the iteration goes on at the next index of the shortened list
RECURSIVE scan_removing(_, _)
scan_removing(ai, i) ==
    LET k == ai.knowledge
    IN  IF i > Len(k) THEN ai
        ELSE IF all_mines(k[i])
        THEN scan_removing(
                 mark_mine_each([ai EXCEPT !.knowledge = list_remove(k, k[i])],
                                k[i].cells), i + 1)
        ELSE IF all_safes(k[i])
        THEN scan_removing(
                 mark_safe_each([ai EXCEPT !.knowledge = list_remove(k, k[i])],
                                k[i].cells), i + 1)
        ELSE scan_removing(ai, i + 1)

resolution_pass_removing_in_scan(ai) == scan_removing(ai, 1)

\* the resolution pass of add_knowledge: scan, remove, mark mines, mark safes
resolution_pass(ai) ==
    LET k == ai.knowledge
        removed == [ai EXCEPT !.knowledge = after_remove(k)]
    IN  mark_safe_each(mark_mine_each(removed, scan_mark_mines(k)),
                       scan_mark_safes(k))

\* the inner loop rewriting the cells of a sentence but not its count
subset_step_keeps_count(k, i, j) ==
    IF SentenceEq(k[i], k[j]) THEN k
    ELSE IF k[j].cells \subseteq k[i].cells
         THEN [k EXCEPT ![i] = Sentence(k[i].cells \ k[j].cells, k[i].count)]
    ELSE IF k[i].cells \subseteq k[j].cells
         THEN [k EXCEPT ![j] = Sentence(k[j].cells \ k[i].cells, k[j].count)]
    ELSE k

\* the inner loop without "if sentence == comp_sentence: continue"
subset_step_without_skip(k, i, j) ==
    IF k[j].cells \subseteq k[i].cells
    THEN [k EXCEPT ![i] = Sentence(k[i].cells \ k[j].cells,
                                   k[i].count - k[j].count)]
    ELSE IF k[i].cells \subseteq k[j].cells
    THEN [k EXCEPT ![j] = Sentence(k[j].cells \ k[i].cells,
                                   k[j].count - k[i].count)]
    ELSE k

\* one iteration of the inner loop of the subset pass, on sentence i and
\* comp_sentence j of the list k (the Sentence objects are rewritten in place)
subset_step(k, i, j) ==
    IF SentenceEq(k[i], k[j]) THEN k
    ELSE IF k[j].cells \subseteq k[i].cells
         THEN [k EXCEPT ![i] = Sentence(k[i].cells \ k[j].cells,
                                        k[i].count - k[j].count)]
    ELSE IF k[i].cells \subseteq k[j].cells
         THEN [k EXCEPT ![j] = Sentence(k[j].cells \ k[i].cells,
                                        k[j].count - k[i].count)]
    ELSE k

\* the nested loops of the subset pass from their p-th iteration on
\* (iteration p is sentence p \div n + 1 against comp_sentence p % n + 1)
RECURSIVE subset_loop(_, _)
subset_loop(k, p) ==
    LET n == Len(k)
    IN  IF p >= n * n THEN k
        ELSE subset_loop(subset_step(k, (p \div n) + 1, (p % n) + 1), p + 1)

\* the subset pass of add_knowledge
subset_pass(k) == subset_loop(k, 0)

\* the list k of the subset pass after the first p iterations of its nested
\* loops
RECURSIVE subset_prefix(_, _)
subset_prefix(k, p) ==
    IF p = 0 THEN k
    ELSE LET n == Len(k)
         IN  subset_step(subset_prefix(k, p - 1),
                         ((p - 1) \div n) + 1, ((p - 1) % n) + 1)

\* add_knowledge up to the partition of the neighbours: the cell is a move
\* made and marked safe
ak_marked(ai, cell) == mark_safe([ai EXCEPT !.moves_made = @ \cup {cell}], cell)

\* the partition removing the safe neighbours only
ak_neighbors_keeps_mines(ai, cell, h, w) ==
    LET a == ak_marked(ai, cell)
    IN  { c \in neighbor_cells(cell, h, w) : c \notin a.safes }

\* neighbors after "for cell in remove_cells: neighbors.remove(cell)"
ak_neighbors(ai, cell, h, w) ==
    LET a == ak_marked(ai, cell)
    IN  { c \in neighbor_cells(cell, h, w) : c \notin a.safes /\ c \notin a.mines }

\* the partition without "count -= 1"
ak_count_not_decremented(ai, cell, count, h, w) == count

\* count after the partition: one less for every neighbour that reaches the
\* elif branch (not in safes, in mines)
ak_count(ai, cell, count, h, w) ==
    LET a == ak_marked(ai, cell)
    IN  count - Cardinality({ c \in neighbor_cells(cell, h, w) :
                                c \notin a.safes /\ c \in a.mines })

\* which return of add_knowledge the call takes
ak_path(ai, cell, count, h, w) ==
    LET remaining == ak_count(ai, cell, count, h, w)
    IN  IF remaining = 0 THEN "all_safe"
        ELSE IF Cardinality(ak_neighbors(ai, cell, h, w)) = remaining
             THEN "all_mines"
        ELSE "sentence"

\* the AI after "self.knowledge.append(new_sentence)"
ak_appended(ai, cell, count, h, w) ==
    [ak_marked(ai, cell) EXCEPT
        !.knowledge = Append(@, Sentence(ak_neighbors(ai, cell, h, w),
                                         ak_count(ai, cell, count, h, w)))]

\* the AI after the resolution pass of a call that appended a sentence
ak_resolved(ai, cell, count, h, w) ==
    resolution_pass(ak_appended(ai, cell, count, h, w))

\* MinesweeperAI.add_knowledge(cell, count)
add_knowledge(ai, cell, count, h, w) ==
    LET path == ak_path(ai, cell, count, h, w)
    IN  IF path = "all_safe"
        THEN mark_safe_each(ak_marked(ai, cell), ak_neighbors(ai, cell, h, w))
        ELSE IF path = "all_mines"
        THEN mark_mine_each(ak_marked(ai, cell), ak_neighbors(ai, cell, h, w))
        ELSE [ak_resolved(ai, cell, count, h, w) EXCEPT
                 !.knowledge = subset_pass(@)]

\* safe_moves without ".difference(self.moves_made)"
safe_moves_with_moves_made(ai) == ai.safes

\* MinesweeperAI.make_safe_move: safe_moves
safe_moves(ai) == ai.safes \ ai.moves_made

\* the scan with its two loops exchanged: column by column
RECURSIVE random_scan_by_column(_, _, _, _)
random_scan_by_column(ai, h, w, p) ==
    IF p >= h * w THEN None
    ELSE LET c == <<p % h, p \div h>>
         IN  IF c \notin ai.mines /\ c \notin ai.moves_made THEN c
             ELSE random_scan_by_column(ai, h, w, p + 1)

\* the scan of make_random_move from its p-th cell on, row by row: the cell
\* it returns, or None
RECURSIVE random_scan(_, _, _, _)
random_scan(ai, h, w, p) ==
    IF p >= h * w THEN None
    ELSE LET c == <<p \div w, p % w>>
         IN  IF c \notin ai.mines /\ c \notin ai.moves_made THEN c
             ELSE random_scan(ai, h, w, p + 1)

\* MinesweeperAI.make_random_move: the value returned
make_random_move(ai, h, w) == random_scan(ai, h, w, 0)

\* ------------------------------------------------------------ the state
Self == AI(moves_made, mines, safes, knowledge)

\* a call as the variable last records it; path is the return add_knowledge took
Call(op, cell, count, ret, path) ==
    [op |-> op, cell |-> cell, count |-> count, ret |-> ret, path |-> path]

\* the grids explored
Dims == { d \in (1..MaxCells) \X (1..MaxCells) : d[1] * d[2] <= MaxCells }

\* MinesweeperAI.__init__, with nothing called yet
InitAI ==
    /\ moves_made = {}
    /\ mines = {}
    /\ safes = {}
    /\ knowledge = <<>>
    /\ calls = 0
    /\ last = Call("init", None, 0, None, "")
    /\ subset_in = <<>>
    /\ scan_in = <<>>

\* Minesweeper.__init__(height, width, mines) and MinesweeperAI.__init__(height,
\* width): a board of the grid with the number of mines asked for
Init ==
    /\ \E d \in Dims : height = d[1] /\ width = d[2]
    /\ board \in { b \in SUBSET Grid(height, width) : Cardinality(b) <= MaxMines }
    /\ InitAI

\* MinesweeperAI.__init__ alone, on a small grid or on the default one; no game
\* is played, the board stays empty
InitAPI ==
    /\ \E d \in Dims \cup {<<DefaultHeight, DefaultWidth>>} :
            height = d[1] /\ width = d[2]
    /\ board = {}
    /\ InitAI

\* the cells the calls of SpecAPI are made on: those of the grid that lie in
\* one of the small grids (on a small grid, every cell)
Inputs == { c \in Grid(height, width) : (c[1] + 1) * (c[2] + 1) <= MaxCells }

\* calls explored under SpecAPI, by grid
ApiBudget ==
    IF height * width <= MaxCells THEN MaxApiCalls ELSE MaxDefaultCalls

\* the grids neighbor_cells is called on by itself: every grid of at most
\* MaxSide rows and columns, and the default one
SideDims == ((1..MaxSide) \X (1..MaxSide)) \cup {<<DefaultHeight, DefaultWidth>>}

\* a grid, with nothing called yet
InitGrid ==
    /\ \E d \in SideDims : height = d[1] /\ width = d[2]
    /\ board = {}
    /\ InitAI

\* ----------------------------------------------------------- the actions
\* a call of add_knowledge(cell, count)
AddKnowledgeCall(cell, count) ==
    /\ LET r == add_knowledge(Self, cell, count, height, width)
       IN  /\ moves_made' = r.moves_made
           /\ mines' = r.mines
           /\ safes' = r.safes
           /\ knowledge' = r.knowledge
    /\ subset_in' =
          IF ak_path(Self, cell, count, height, width) = "sentence"
          THEN ak_resolved(Self, cell, count, height, width).knowledge
          ELSE <<>>
    /\ scan_in' =
          IF ak_path(Self, cell, count, height, width) = "sentence"
          THEN ak_appended(Self, cell, count, height, width).knowledge
          ELSE <<>>
    /\ last' = Call("add_knowledge", cell, count, None,
                     ak_path(Self, cell, count, height, width))
    /\ calls' = calls + 1
    /\ UNCHANGED <<height, width, board>>

\* the game reveals a cell that holds no mine and tells the AI its count
Reveal ==
    /\ calls < MaxCalls
    /\ \E cell \in Grid(height, width) :
          /\ ~is_mine(board, cell)
          /\ AddKnowledgeCall(cell, nearby_mines(board, cell, height, width))

\* add_knowledge with any cell and any count the cell's neighbours allow
AddKnowledge ==
    /\ calls < ApiBudget
    /\ \E cell \in Inputs :
          \E count \in 0..Cardinality(neighbor_cells(cell, height, width)) :
              AddKnowledgeCall(cell, count)

\* MinesweeperAI.mark_mine(cell), called from outside
MarkMine ==
    /\ calls < ApiBudget
    /\ \E cell \in Inputs :
          /\ mines' = mark_mine(Self, cell).mines
          /\ knowledge' = mark_mine(Self, cell).knowledge
          /\ last' = Call("mark_mine", cell, 0, None, "")
    /\ calls' = calls + 1
    /\ UNCHANGED <<height, width, board, moves_made, safes, subset_in,
                   scan_in>>

\* MinesweeperAI.mark_safe(cell), called from outside
MarkSafe ==
    /\ calls < ApiBudget
    /\ \E cell \in Inputs :
          /\ safes' = mark_safe(Self, cell).safes
          /\ knowledge' = mark_safe(Self, cell).knowledge
          /\ last' = Call("mark_safe", cell, 0, None, "")
    /\ calls' = calls + 1
    /\ UNCHANGED <<height, width, board, moves_made, mines, subset_in,
                   scan_in>>

\* MinesweeperAI.make_safe_move(): a set is iterated in an order the program
\* does not fix, so the move returned is any element of safe_moves
MakeSafeMove(budget) ==
    /\ calls < budget
    /\ IF safe_moves(Self) = {}
       THEN last' = Call("make_safe_move", None, 0, None, "")
       ELSE \E moves \in safe_moves(Self) :
                last' = Call("make_safe_move", None, 0, moves, "")
    /\ calls' = calls + 1
    /\ UNCHANGED <<height, width, board, moves_made, mines, safes, knowledge,
                   subset_in, scan_in>>

\* make_random_move without "self.moves_made.add((i, j))"
MakeRandomMove_not_recorded(budget) ==
    /\ calls < budget
    /\ last' = Call("make_random_move", None, 0,
                    make_random_move(Self, height, width), "")
    /\ calls' = calls + 1
    /\ UNCHANGED <<height, width, board, moves_made, mines, safes, knowledge,
                   subset_in, scan_in>>

\* MinesweeperAI.make_random_move()
MakeRandomMove(budget) ==
    /\ calls < budget
    /\ LET ret == make_random_move(Self, height, width)
       IN  /\ moves_made' = IF ret = None THEN moves_made ELSE moves_made \cup {ret}
           /\ last' = Call("make_random_move", None, 0, ret, "")
    /\ calls' = calls + 1
    /\ UNCHANGED <<height, width, board, mines, safes, knowledge, subset_in,
                   scan_in>>

\* MinesweeperAI.mark_mine(cell) called a second time in a row with the cell
\* of the call before it
MarkMineAgain ==
    /\ calls <= ApiBudget
    /\ last.op = "mark_mine"
    /\ mines' = mark_mine(Self, last.cell).mines
    /\ knowledge' = mark_mine(Self, last.cell).knowledge
    /\ last' = Call("mark_mine", last.cell, 0, None, "")
    /\ calls' = calls + 1
    /\ UNCHANGED <<height, width, board, moves_made, safes, subset_in,
                   scan_in>>

\* MinesweeperAI.mark_safe(cell) called a second time in a row with the cell
\* of the call before it
MarkSafeAgain ==
    /\ calls <= ApiBudget
    /\ last.op = "mark_safe"
    /\ safes' = mark_safe(Self, last.cell).safes
    /\ knowledge' = mark_safe(Self, last.cell).knowledge
    /\ last' = Call("mark_safe", last.cell, 0, None, "")
    /\ calls' = calls + 1
    /\ UNCHANGED <<height, width, board, moves_made, mines, subset_in,
                   scan_in>>

\* neighbor_cells(current_cell, height, width), called by itself on a cell of
\* the grid
NeighborCells ==
    /\ \E current_cell \in Grid(height, width) :
          last' = Call("neighbor_cells", current_cell, 0,
                       neighbor_cells(current_cell, height, width), "")
    /\ UNCHANGED <<height, width, board, moves_made, mines, safes, knowledge,
                   calls, subset_in, scan_in>>

\* a game: cells revealed truthfully, with the two move queries in between
Next ==
    \/ Reveal
    \/ MakeSafeMove(MaxCalls)
    \/ MakeRandomMove(MaxCalls)

Spec == Init /\ [][Next]_vars

\* any use of the five public methods of MinesweeperAI
NextAPI ==
    \/ AddKnowledge
    \/ MarkMine
    \/ MarkSafe
    \/ MakeSafeMove(ApiBudget)
    \/ MakeRandomMove(ApiBudget)

SpecAPI == InitAPI /\ [][NextAPI]_vars

\* any use of the public methods, where a mark may be repeated once more after
\* the other calls are used up
NextRepeat ==
    \/ NextAPI
    \/ MarkMineAgain
    \/ MarkSafeAgain

SpecRepeat == InitAPI /\ [][NextRepeat]_vars

\* the module function neighbor_cells alone
NextGrid == NeighborCells

SpecGrid == InitGrid /\ [][NextGrid]_vars

\* --------------------------------------------------------------- claims
\* the step is a call of the method op
IsCall(op) == calls' = calls + 1 /\ last'.op = op

\* the sentence s is an element of the list k
Has(k, s) == \E i \in 1..Len(k) : SentenceEq(k[i], s)

\* C1: in every state of a game (cells without a mine revealed with their true
\* counts, move queries in between) safes and mines are disjoint.
C1_Disjoint == safes \cap mines = {}

\* C1 witness: add_knowledge calls have put cells into both sets
C1_Witness ==
    /\ last.op = "add_knowledge"
    /\ safes \ moves_made # {}
    /\ mines # {}

\* C2: after every add_knowledge, mark_mine or mark_safe call no cell of any
\* Sentence in knowledge is in safes or in mines.
C2_Purged ==
    \A i \in 1..Len(knowledge) :
        knowledge[i].cells \cap (safes \cup mines) = {}

\* C2 witness: mark_mine was called on a neighbour of a revealed cell while
\* sentences with cells are in knowledge, and safes and mines both hold cells
C2_Witness ==
    /\ last.op = "mark_mine"
    /\ \E m \in moves_made : last.cell \in neighbor_cells(m, height, width)
    /\ \E i \in 1..Len(knowledge) : knowledge[i].cells # {}
    /\ safes # {}

\* C3: in a game every Sentence in knowledge has 0 <= count <= |cells|.
C3_CountInRange ==
    \A i \in 1..Len(knowledge) :
        /\ 0 <= knowledge[i].count
        /\ knowledge[i].count <= Cardinality(knowledge[i].cells)

\* C3 witness: the subset pass of the last add_knowledge rewrote a sentence,
\* and a mine is known
C3_Witness ==
    /\ last.op = "add_knowledge"
    /\ last.path = "sentence"
    /\ knowledge # subset_in
    /\ mines # {}
    /\ \E i \in 1..Len(knowledge) : knowledge[i].cells # {}

\* C4 (as claimed): after every add_knowledge call knowledge holds no Sentence
\* with count = 0, with count = |cells| or with no cells.
C4_NoResolvedLeft ==
    last.op = "add_knowledge" =>
        \A i \in 1..Len(knowledge) :
            /\ knowledge[i].count # 0
            /\ knowledge[i].count # Cardinality(knowledge[i].cells)
            /\ knowledge[i].cells # {}

\* the subset pass found {A, B, C} = 1 and {A, B} = 1 in k
C5_Scenario(k, A, B, C) ==
    /\ A # B /\ A # C /\ B # C
    /\ Has(k, Sentence({A, B, C}, 1))
    /\ Has(k, Sentence({A, B}, 1))

\* C5 (as claimed): when the subset pass of an add_knowledge call finds
\* {A, B, C} = 1 and {A, B} = 1 in knowledge, that pass leaves {C} = 0 in
\* knowledge, and C is in safes when the next add_knowledge call returns.
C5_SubsetInference ==
    [][IsCall("add_knowledge") =>
        \A A, B, C \in Grid(height, width) :
            /\ C5_Scenario(subset_in', A, B, C) =>
                  Has(knowledge', Sentence({C}, 0))
            /\ C5_Scenario(subset_in, A, B, C) => C \in safes']_vars

\* C6: every call leaves safes, mines and moves_made supersets of what they were.
C6_Monotone ==
    [][/\ safes \subseteq safes'
       /\ mines \subseteq mines'
       /\ moves_made \subseteq moves_made']_vars

\* C6 witness: calls have put cells into each of the three sets
C6_Witness ==
    /\ safes \ moves_made # {}
    /\ mines # {}
    /\ moves_made # {}

\* C7: add_knowledge(cell, 0) with no neighbour of cell in safes or mines puts
\* every neighbour of cell into safes, adds no Sentence and leaves mines as it
\* was; on a new 8 x 8 AI add_knowledge((0,0), 0) puts (0,1), (1,0), (1,1) into
\* safes and leaves mines empty.
C7_ZeroCount ==
    [][(IsCall("add_knowledge") /\ last'.count = 0) =>
        /\ neighbor_cells(last'.cell, height, width) \cap (safes \cup mines) = {}
             => /\ \A c \in Grid(height, width) :
                      ( /\ c # last'.cell
                        /\ c[1] - last'.cell[1] \in {-1, 0, 1}
                        /\ c[2] - last'.cell[2] \in {-1, 0, 1} ) => c \in safes'
                /\ Len(knowledge') = Len(knowledge)
                /\ mines' = mines
        /\ ( /\ height = 8 /\ width = 8
             /\ calls = 0
             /\ last'.cell = <<0, 0>> )
             => /\ {<<0, 1>>, <<1, 0>>, <<1, 1>>} \subseteq safes'
                /\ mines' = {}]_vars

\* C7 witness: the first call on the default 8 x 8 grid was add_knowledge((0,0), 0)
C7_Witness ==
    /\ height = 8 /\ width = 8
    /\ calls = 1
    /\ last.op = "add_knowledge"
    /\ last.cell = <<0, 0>>
    /\ last.count = 0
    /\ last.path = "all_safe"

\* C8: add_knowledge(cell, count) whose count, less the neighbours already in
\* mines, is not 0 and equals the number of neighbours in neither safes nor
\* mines puts all those neighbours into mines and adds no Sentence.
C8_AllMines ==
    [][IsCall("add_knowledge") =>
        LET nb == neighbor_cells(last'.cell, height, width)
            undetermined == nb \ (safes \cup mines)
            remaining == last'.count - Cardinality(nb \cap mines)
        IN  (remaining # 0 /\ remaining = Cardinality(undetermined))
               => /\ undetermined \subseteq mines'
                  /\ Len(knowledge') = Len(knowledge)]_vars

\* C8 witness: an add_knowledge call with a count of 2 or more took the
\* all-mines return while knowledge holds sentences
C8_Witness ==
    /\ last.op = "add_knowledge"
    /\ last.path = "all_mines"
    /\ last.count >= 2
    /\ knowledge # <<>>

\* C9: make_safe_move returns a cell of safes \ moves_made when there is one
\* and None when there is none, and changes none of moves_made, safes, mines,
\* knowledge.
C9_SafeMove ==
    [][IsCall("make_safe_move") =>
        /\ (safes \ moves_made # {}) => last'.ret \in safes \ moves_made
        /\ (safes \ moves_made = {}) => last'.ret = None
        /\ UNCHANGED <<moves_made, safes, mines, knowledge>>]_vars

\* C9 witness: make_safe_move returned a cell while another safe cell was
\* already a move made
C9_Witness ==
    /\ last.op = "make_safe_move"
    /\ last.ret # None
    /\ safes \cap moves_made # {}

\* a comes no later than b in row-major order
RowMajorLeq(a, b) == a[1] < b[1] \/ (a[1] = b[1] /\ a[2] <= b[2])

C11_MarkTwice ==
    [][ /\ calls' = calls + 1
        /\ last'.op \in {"mark_mine", "mark_safe"}
        /\ last.op = last'.op
        /\ last.cell = last'.cell
        => UNCHANGED <<mines, safes, moves_made, knowledge>> ]_vars

\* add_knowledge made a sentence, mark_mine(c) took c out of it and lowered its
\* count, and mark_mine(c) was called again
C11_Witness ==
    /\ calls = ApiBudget + 1
    /\ last.op = "mark_mine"
    /\ Len(scan_in) = 1
    /\ last.cell \in scan_in[1].cells
    /\ Len(knowledge) = 1
    /\ knowledge[1] = Sentence(scan_in[1].cells \ {last.cell},
                               scan_in[1].count - 1)

\* C12: neighbor_cells(cell, height, width) returns the set of the cells of the
\* grid other than cell whose row and column are each within 1 of cell's; on a
\* grid of at least 3 rows and 3 columns that is 3 cells for a corner, 5 for
\* another edge cell and 8 for an interior cell; and neighbor_cells((0,0), 8, 8)
\* = {(0,1), (1,0), (1,1)}
C12_NeighborCells ==
    last.op = "neighbor_cells" =>
        LET cell == last.cell
            rowEdge == cell[1] \in {0, height - 1}
            colEdge == cell[2] \in {0, width - 1}
        IN  /\ last.ret = { c \in Grid(height, width) :
                                /\ c # cell
                                /\ c[1] - cell[1] \in -1..1
                                /\ c[2] - cell[2] \in -1..1 }
            /\ height >= 3 /\ width >= 3 =>
                   Cardinality(last.ret) = IF rowEdge /\ colEdge THEN 3
                                           ELSE IF rowEdge \/ colEdge THEN 5
                                           ELSE 8
            /\ cell = <<0, 0>> /\ height = 8 /\ width = 8 =>
                   last.ret = {<<0, 1>>, <<1, 0>>, <<1, 1>>}

\* neighbor_cells was called on the last cell of a grid of 3 rows and 4
\* columns, where the window reaches past both far edges
C12_Witness ==
    /\ height = 3 /\ width = 4
    /\ last.op = "neighbor_cells"
    /\ last.cell = <<2, 3>>
    /\ last.ret = {<<1, 2>>, <<1, 3>>, <<2, 2>>}

\* C13: when add_knowledge(cell, count) appends a new Sentence, its cells are
\* the neighbours of cell on the grid that are neither in safes (with cell
\* itself marked safe) nor in mines, and its count is the count given less the
\* number of neighbours of cell that were in mines before the call
C13_NewSentence ==
    [][ IsCall("add_knowledge") /\ last'.path = "sentence" =>
          LET new_sentence == scan_in'[Len(scan_in')]
              neighbors == neighbor_cells(last'.cell, height, width)
          IN  /\ Len(scan_in') = Len(knowledge) + 1
              /\ new_sentence.cells =
                     neighbors \ ((safes \cup {last'.cell}) \cup mines)
              /\ new_sentence.count =
                     last'.count - Cardinality(neighbors \cap mines) ]_vars

\* a new sentence was appended whose cell has a neighbour known to be a mine
\* and a neighbour known to be safe: its count is less than the count given
\* and its cells are fewer than the neighbours
C13_Witness ==
    /\ last.op = "add_knowledge" /\ last.path = "sentence"
    /\ scan_in[Len(scan_in)].count < last.count
    /\ \E c \in neighbor_cells(last.cell, height, width) :
           /\ c \in safes
           /\ c \notin scan_in[Len(scan_in)].cells

\* C14: after an add_knowledge that ran the resolution pass, every Sentence
\* that had count = |cells| when the scan started has all its cells in mines,
\* every Sentence that had count = 0 then has all its cells in safes, and the
\* Sentences the pass left in knowledge are, in their order, the ones that had
\* neither (with marked cells taken out): none that was resolvable at the start
\* of the scan is skipped
C14_ResolutionPass ==
    last.op = "add_knowledge" /\ last.path = "sentence" =>
        LET resolvable(s) == s.count = Cardinality(s.cells) \/ s.count = 0
            kept == SelectSeq(scan_in, LAMBDA s : ~resolvable(s))
        IN  /\ \A i \in 1..Len(scan_in) :
                  /\ scan_in[i].count = Cardinality(scan_in[i].cells) =>
                         scan_in[i].cells \subseteq mines
                  /\ scan_in[i].count = 0 => scan_in[i].cells \subseteq safes
            /\ Len(subset_in) = Len(kept)
            /\ \A j \in 1..Len(kept) : subset_in[j].cells \subseteq kept[j].cells

\* the scan started with a Sentence to resolve into mines and, later in
\* knowledge, one that was not resolvable and lost a cell to the marks
C14_Witness ==
    /\ last.op = "add_knowledge" /\ last.path = "sentence"
    /\ \E i \in 1..Len(scan_in) :
          /\ scan_in[i].cells # {}
          /\ scan_in[i].count = Cardinality(scan_in[i].cells)
          /\ \E j \in (i + 1)..Len(scan_in) :
                /\ scan_in[j].count # Cardinality(scan_in[j].cells)
                /\ scan_in[j].count # 0
                /\ scan_in[j].cells \cap scan_in[i].cells # {}

\* C15: the subset pass leaves as many Sentences as it found; an iteration of
\* its loops on (sentence, comp_sentence) changes a Sentence A only if A is one
\* of the two, the other one B differs from A in cells or count and B.cells is
\* then a subset of A.cells, and A becomes (A.cells minus B.cells, A.count minus
\* B.count); the iteration makes that change when comp_sentence's cells are a
\* subset of sentence's, and otherwise when sentence's are a subset of
\* comp_sentence's
C15_SubsetPass ==
    last.op = "add_knowledge" /\ last.path = "sentence" =>
        LET n == Len(subset_in)
        IN  /\ Len(knowledge) = n
            /\ knowledge = subset_prefix(subset_in, n * n)
            /\ \A p \in 0..(n * n - 1) :
                  LET before == subset_prefix(subset_in, p)
                      after == subset_prefix(subset_in, p + 1)
                      i == (p \div n) + 1
                      j == (p % n) + 1
                      differs(a, b) == \/ before[a].cells # before[b].cells
                                       \/ before[a].count # before[b].count
                      minus(a, b) ==
                          [cells |-> before[a].cells \ before[b].cells,
                           count |-> before[a].count - before[b].count]
                  IN  /\ Len(after) = n
                      /\ \A a \in 1..n :
                            after[a] # before[a] =>
                                /\ a \in {i, j}
                                /\ \E b \in {i, j} \ {a} :
                                      /\ differs(a, b)
                                      /\ before[b].cells \subseteq before[a].cells
                                      /\ after[a] = minus(a, b)
                      /\ (differs(i, j) /\ before[j].cells \subseteq before[i].cells)
                            => after[i] = minus(i, j)
                      /\ ( /\ differs(i, j)
                           /\ ~(before[j].cells \subseteq before[i].cells)
                           /\ before[i].cells \subseteq before[j].cells )
                            => after[j] = minus(j, i)

\* the subset pass found a Sentence whose cells are a proper subset of those
\* of a later Sentence and rewrote the later one, as comp_sentence
C15_Witness ==
    /\ last.op = "add_knowledge" /\ last.path = "sentence"
    /\ \E i \in 1..Len(subset_in) :
          \E j \in (i + 1)..Len(subset_in) :
              /\ subset_in[i].cells # {}
              /\ subset_in[i].cells \subseteq subset_in[j].cells
              /\ subset_in[i].cells # subset_in[j].cells
              /\ knowledge[i] = subset_in[i]
              /\ knowledge[j].cells = subset_in[j].cells \ subset_in[i].cells
              /\ knowledge[j].count = subset_in[j].count - subset_in[i].count

\* C16: in a game (every add_knowledge call made on a cell without a mine,
\* with the number of mines around it on the board), every cell in mines is a
\* mine of the board, no cell in safes is one, every Sentence's count is the
\* number of board mines among its cells, and a cell returned by
\* make_safe_move is not a mine
C16_Sound ==
    /\ mines \subseteq board
    /\ safes \cap board = {}
    /\ \A i \in 1..Len(knowledge) :
          knowledge[i].count = Cardinality(knowledge[i].cells \cap board)
    /\ last.op = "make_safe_move" /\ last.ret # None => ~is_mine(board, last.ret)

\* make_safe_move returned a cell while a Sentence about undetermined cells, a
\* mine among them, was held
C16_Witness ==
    /\ last.op = "make_safe_move" /\ last.ret # None
    /\ \E i \in 1..Len(knowledge) :
          /\ knowledge[i].count > 0
          /\ Cardinality(knowledge[i].cells) > knowledge[i].count

\* C17: a make_random_move call that returns a cell adds that cell, which was
\* not a move made, and nothing else to moves_made; a call that returns None
\* leaves moves_made as it was; either leaves safes, mines and knowledge
\* unchanged; and a call that directly follows a make_random_move call does
\* not return the cell that one returned
C17_RandomMoveFrame ==
    [][ IsCall("make_random_move") =>
          /\ last'.ret # None => /\ last'.ret \notin moves_made
                                 /\ moves_made' = moves_made \cup {last'.ret}
          /\ last'.ret = None => moves_made' = moves_made
          /\ UNCHANGED <<safes, mines, knowledge>>
          /\ (last.op = "make_random_move" /\ last'.ret # None)
                => last'.ret # last.ret ]_vars

\* two make_random_move calls in a row returned two cells, both now moves made
\* and neither in safes
C17_Witness ==
    /\ last.op = "make_random_move" /\ last.ret # None
    /\ calls = 2
    /\ Cardinality(moves_made) = 2
    /\ moves_made \cap safes = {}

====
